---- MODULE Spec2Model ----
(***************************************************************************)
(* A model of the traffic backend: the routing engine of backend/main.py   *)
(* (build_graph, get_path), the cost metrics of backend/game_theory.py and *)
(* the forecaster of backend/ml_inference.py.                              *)
(*                                                                         *)
(* Numbers.  congestion_level is a float in the code.  Here it is an       *)
(* integer number of 1/10000: 9000 is 0.9.  Snapshot values are multiples  *)
(* of 100, so one multiplication by 0.85 is exact.                         *)
(***************************************************************************)
EXTENDS Integers, Sequences, FiniteSets, TLC

VARIABLES
    df,         \* main.py: the global snapshot, label -> row
    req,        \* the get_path request being served, or NoRequest
    resp,       \* the response to req, or NoResponse while it is pending
    build,      \* the locals of the build_graph call made for req
    artifacts,  \* the model and encoder files on disk
    train_pc,   \* train_model.py: where the training job is in saving them
    model,      \* ml_inference.py: traffic_predictor.model
    encoders,   \* ml_inference.py: traffic_predictor.encoders
    rng,        \* the state of the process-wide generator of module random
    hash_salt,  \* the per-process salt of str hashing
    pc,         \* per thread: where its predict_congestion call stands
    call,       \* per thread: the arguments of its call
    out,        \* per thread: what its call returned or raised
    called,     \* history: predict_congestion has been called
    loads_done, \* history: completed loads of the pair, counted up to two
    memo,       \* history: per route key, the first fallback result returned
    traffic_data, \* game_theory.py: the argument of calculate_metrics
    metrics,    \* game_theory.py: what calculate_metrics returned, or NoMetrics
    csv_file,   \* main.py: traffic_data_simulated.csv on disk
    status,     \* main.py: what get_traffic_status answered, or NoStatus
    node_list   \* main.py: what get_nodes answered, or NoNodeList

routeVars == <<df, req, resp, build>>
mlVars == <<artifacts, train_pc, model, encoders, rng, hash_salt, pc, call, out,
            called, loads_done, memo>>
gtVars == <<traffic_data, metrics>>
coreVars == <<csv_file, status, node_list>>
vars == <<routeVars, mlVars, gtVars, coreVars>>

\* ------------------------------------------------------------------ bounds

\* Rows of a routing snapshot.
MaxRows == 3
\* Rows at the latest timestamp of a large snapshot.
MaxRowsBuild == 14
\* Rows of a large snapshot whose congestion is above the base level.
MaxHot == 1

\* ------------------------------------------------------------- input sets

Nodes == {"A", "B", "C"}
\* A node name no snapshot row mentions.
UnknownNode == "Z"
RequestNodes == Nodes \cup {UnknownNode}
Modes == {"current", "optimized"}
EdgeUniverse == {<<"A", "B">>, <<"B", "C">>, <<"A", "C">>, <<"B", "A">>}
CongestionLevels == {1000, 9000}
Timestamps == {1, 2}
\* pandas' default sort is not stable: rows of equal congestion come out in
\* the original order or in the reverse order.
SortKinds == {"stable", "reversed"}

NoRequest == [kind |-> "none"]
NoResponse == [kind |-> "none"]
NoBuild == [kind |-> "none"]

NoMetrics == [status |-> "none"]

MetricsIdle ==
    /\ traffic_data = <<>>
    /\ metrics = NoMetrics

RouteIdle ==
    /\ df = <<>>
    /\ req = NoRequest
    /\ resp = NoResponse
    /\ build = NoBuild

NoStatus == [kind |-> "none"]
NoNodeList == [kind |-> "none"]

\* The file holds the rows of df and no request has been answered from it.
CoreIdle ==
    /\ csv_file = [state |-> "ok", rows |-> df]
    /\ status = NoStatus
    /\ node_list = NoNodeList

Max(a, b) == IF a >= b THEN a ELSE b
Min(a, b) == IF a <= b THEN a ELSE b

\* --------------------------------------------------------------- snapshots

Row(u, v, c, t) == [u |-> u, v |-> v, congestion_level |-> c, timestamp |-> t]

RowSet ==
    {Row(e[1], e[2], c, t) : e \in EdgeUniverse, c \in CongestionLevels, t \in Timestamps}

\* The CSV is written in time order: every row is of the latest timestamp,
\* except that the first row may be older.
LatestStamp == CHOOSE t \in Timestamps : \A x \in Timestamps : x <= t

TimeOrdered(frame) ==
    \A i \in DOMAIN frame : i > 1 \/ Len(frame) = 1 => frame[i].timestamp = LatestStamp

SmallSnapshots ==
    UNION {{f \in [1..n -> RowSet] : TimeOrdered(f)} : n \in 0..MaxRows}

\* Large snapshots: n rows on distinct node pairs of a five-node network, all
\* at the base congestion except a few hot rows, optionally preceded by one
\* stale (older timestamp) row that is hotter than all of them.
BigNodeSeq == <<"A", "B", "C", "D", "E">>
HotLevels == {9000}
LargeLevels == [base |-> 5000, stale |-> 9900]

PairU(p) == BigNodeSeq[((p - 1) \div 4) + 1]
PairV(p) ==
    LET ui == ((p - 1) \div 4) + 1
        k == ((p - 1) % 4) + 1
    IN BigNodeSeq[IF k < ui THEN k ELSE k + 1]

LargeFrame(n, hot, stale) ==
    [i \in 1..(n + stale) |->
        IF i <= stale
        THEN Row(PairU(1), PairV(1), LargeLevels.stale, 1)
        ELSE Row(PairU(i - stale), PairV(i - stale),
                 IF (i - stale) \in DOMAIN hot THEN hot[i - stale] ELSE LargeLevels.base, 2)]

HotAssignments(n) ==
    UNION {[H -> HotLevels] : H \in {S \in SUBSET (1..n) : Cardinality(S) <= MaxHot}}

LargeSnapshots ==
    UNION {{LargeFrame(n, hot, stale) : hot \in HotAssignments(n), stale \in {0, 1}} :
              n \in 0..MaxRowsBuild}

\* --------------------------------------------------- build_graph (main.py)

\* data_frame['timestamp'].max()
LatestTime(frame) ==
    CHOOSE t \in {frame[i].timestamp : i \in DOMAIN frame} :
        \A i \in DOMAIN frame : frame[i].timestamp <= t

\* data_frame[data_frame['timestamp'] == latest_time]: the rows keep their labels.
CurrentRows(frame) ==
    IF DOMAIN frame = {}
    THEN frame
    ELSE [i \in {j \in DOMAIN frame : frame[j].timestamp = LatestTime(frame)} |-> frame[i]]

\* Whether row i comes before row j in sort_values(ascending=False).
SortsBefore(frame, i, j, kind) ==
    \/ frame[i].congestion_level > frame[j].congestion_level
    \/ /\ frame[i].congestion_level = frame[j].congestion_level
       /\ IF kind = "stable" THEN i < j ELSE i > j

RECURSIVE sort_values(_, _, _)
\* The labels of `labels` in descending order of congestion_level.
sort_values(frame, labels, kind) ==
    IF labels = {}
    THEN <<>>
    ELSE LET first == CHOOSE i \in labels :
                          \A j \in labels \ {i} : SortsBefore(frame, i, j, kind)
         IN <<first>> \o sort_values(frame, labels \ {first}, kind)

top_15_percent_count_no_floor(n) == (n * 15) \div 100

\* max(1, int(len(sorted_df) * 0.15))
top_15_percent_count(n) == Max(1, (n * 15) \div 100)

\* sorted_df.head(k).index
head_index(sorted, k) == {sorted[i] : i \in 1..Min(k, Len(sorted))}

Surcharge(c) == (c * 115) \div 100

\* congestion_level *= 0.85
Discount(c) == (c * 85) \div 100

\* current_df.loc[top_edges, 'congestion_level'] *= 0.85
DiscountRows(frame, top_edges) ==
    [i \in DOMAIN frame |->
        IF i \in top_edges
        THEN [frame[i] EXCEPT !.congestion_level = Discount(@)]
        ELSE frame[i]]

\* What a write to the working frame does to the frame it was taken from, were
\* the working frame a view of it: the written rows show through.
WriteThrough(data_frame, current_df) ==
    [i \in DOMAIN data_frame |-> IF i \in DOMAIN current_df THEN current_df[i] ELSE data_frame[i]]

\* .copy(): the working frame is a copy, so the caller's frame keeps its rows.
FrameAfterCopy(data_frame, current_df) == data_frame

EmptyGraph == [nodes |-> {}, weight |-> <<>>]

\* G.add_edge(u, v, weight=w): an edge that exists is overwritten.
add_edge(G, u, v, w) ==
    [nodes |-> G.nodes \cup {u, v},
     weight |-> [e \in DOMAIN G.weight \cup {<<u, v>>} |->
                    IF e = <<u, v>> THEN w ELSE G.weight[e]]]

RECURSIVE from_pandas_edgelist(_, _, _)
\* nx.from_pandas_edgelist: the rows are added in label order.
from_pandas_edgelist(frame, labels, G) ==
    IF labels = {}
    THEN G
    ELSE LET i == CHOOSE x \in labels : \A y \in labels : x <= y
         IN from_pandas_edgelist(frame, labels \ {i},
                add_edge(G, frame[i].u, frame[i].v, frame[i].congestion_level))

\* build_graph(data_frame, optimized): its locals and what it leaves in data_frame.
build_graph(data_frame, optimized, kind) ==
    LET filtered == CurrentRows(data_frame)
        sorted_df == sort_values(filtered, DOMAIN filtered, kind)
        top_edges == IF optimized
                     THEN head_index(sorted_df, top_15_percent_count(Len(sorted_df)))
                     ELSE {}
        current_df == DiscountRows(filtered, top_edges)
    IN [kind |-> "built",
        optimized |-> optimized,
        top_edges |-> top_edges,
        current_df |-> current_df,
        data_frame |-> FrameAfterCopy(data_frame, current_df),
        G |-> from_pandas_edgelist(current_df, DOMAIN current_df, EmptyGraph)]

\* ------------------------------------------------ nx.shortest_path (main.py)

OutNeighbours(G, u) == {v \in G.nodes : <<u, v>> \in DOMAIN G.weight}

RECURSIVE dijkstra(_, _, _, _, _)
\* Dijkstra's algorithm from the nodes of `dist`: the distances and
\* predecessors when the target is finished or no reached node is left.
dijkstra(G, target, dist, pred, finished) ==
    LET fringe == DOMAIN dist \ finished
    IN IF fringe = {}
       THEN [dist |-> dist, pred |-> pred, found |-> FALSE]
       ELSE LET u == CHOOSE x \in fringe : \A y \in fringe : dist[x] <= dist[y]
            IN IF u = target
               THEN [dist |-> dist, pred |-> pred, found |-> TRUE]
               ELSE LET better == {v \in OutNeighbours(G, u) \ finished :
                                      \/ v \notin DOMAIN dist
                                      \/ dist[u] + G.weight[<<u, v>>] < dist[v]}
                        dist2 == [v \in DOMAIN dist \cup better |->
                                     IF v \in better
                                     THEN dist[u] + G.weight[<<u, v>>]
                                     ELSE dist[v]]
                        pred2 == [v \in DOMAIN pred \cup better |->
                                     IF v \in better THEN u ELSE pred[v]]
                    IN dijkstra(G, target, dist2, pred2, finished \cup {u})

RECURSIVE path_to(_, _, _)
path_to(pred, source, v) ==
    IF v = source THEN <<source>> ELSE Append(path_to(pred, source, pred[v]), v)

\* nx.shortest_path(G, source, target, weight='weight'): the path, or
\* NetworkXNoPath raised.
shortest_path(G, source, target) ==
    LET r == dijkstra(G, target, [x \in {source} |-> 0], [x \in {} |-> source], {})
    IN IF r.found
       THEN [raised |-> "none", path |-> path_to(r.pred, source, target)]
       ELSE [raised |-> "NetworkXNoPath", path |-> <<>>]

\* ------------------------------------------------------ get_path (main.py)

\* The default 'speed' column of build_graph: the snapshot has none.
DefaultSpeed == 40

\* The exception classes of the handler and their base classes.
BaseClasses ==
    [HTTPException |-> {"HTTPException", "Exception"},
     NetworkXNoPath |-> {"NetworkXNoPath", "NetworkXUnfeasible", "NetworkXException", "Exception"}]

IsInstance(exc, class) == class \in BaseClasses[exc.class]

NodeNotFoundDetail == "Source or Target node not found in network."
NoPathDetail == "No path found between selected nodes."

HTTPException(status_code, detail) ==
    [class |-> "HTTPException", status_code |-> status_code, detail |-> detail]

\* str(e) of an exception.
Str(exc) == <<"str", exc>>

RECURSIVE path_details(_, _, _)
\* The loop over range(len(path) - 1), from index i on.
path_details(G, path, i) ==
    IF i > Len(path) - 1
    THEN <<>>
    ELSE <<[from |-> path[i],
            to |-> path[i + 1],
            congestion |-> G.weight[<<path[i], path[i + 1]>>] * 100,
            speed |-> DefaultSpeed]>>
         \o path_details(G, path, i + 1)

RECURSIVE total_congestion_dropping_last(_, _, _)
total_congestion_dropping_last(G, path, i) ==
    IF i >= Len(path) - 1
    THEN 0
    ELSE G.weight[<<path[i], path[i + 1]>>] + total_congestion_dropping_last(G, path, i + 1)

RECURSIVE total_congestion(_, _, _)
\* total_congestion += data['weight'], from index i on.
total_congestion(G, path, i) ==
    IF i > Len(path) - 1
    THEN 0
    ELSE G.weight[<<path[i], path[i + 1]>>] + total_congestion(G, path, i + 1)

\* The body of the try block: what it returns or raises.
get_path_try(G, r) ==
    IF r.source \notin G.nodes \/ r.target \notin G.nodes
    THEN [kind |-> "raise", exc |-> HTTPException(404, NodeNotFoundDetail)]
    ELSE LET sp == shortest_path(G, r.source, r.target)
         IN IF sp.raised # "none"
            THEN [kind |-> "raise", exc |-> [class |-> sp.raised]]
            ELSE [kind |-> "return",
                  value |-> [kind |-> "ok",
                             status_code |-> 200,
                             path |-> sp.path,
                             edges |-> path_details(G, sp.path, 1),
                             total_weight |-> total_congestion(G, sp.path, 1)]]

\* The except clauses, in order: NetworkXNoPath, then Exception.
get_path_except(outcome) ==
    IF outcome.kind = "return"
    THEN outcome.value
    ELSE IF IsInstance(outcome.exc, "NetworkXNoPath")
    THEN [kind |-> "error", status_code |-> 404, detail |-> NoPathDetail]
    ELSE IF IsInstance(outcome.exc, "Exception")
    THEN [kind |-> "error", status_code |-> 500, detail |-> Str(outcome.exc)]
    ELSE [kind |-> "error", status_code |-> outcome.exc.status_code,
          detail |-> outcome.exc.detail]

\* ------------------------------------------- the forecaster (ml_inference.py)

Threads == {"t1", "t2"}
None == "None"
Loaded == "loaded"
FileStates == {"absent", "corrupt", "ok"}

\* Strings are sequences of character codes: letters are 1.., the digit d is 10 + d.
RECURSIVE Digits(_)
\* str(hour) of a non-negative int
Digits(n) == IF n < 10 THEN <<10 + n>> ELSE Append(Digits(n \div 10), 10 + (n % 10))

\* The (u, v, hour) of the calls, by name: A to B at 8, A to C at 17.
RouteKeys == {"AB8", "AC17"}
KeyOf(k) ==
    IF k = "AB8"
    THEN [u |-> <<1>>, v |-> <<2>>, hour |-> 8]
    ELSE [u |-> <<1>>, v |-> <<3>>, hour |-> 17]

\* The rain_intensity, visibility, temperature and event_type of the calls, by name.
Contexts == {"dry", "festival"}
ContextOf(c) ==
    IF c = "dry"
    THEN [rain_intensity |-> 0, visibility |-> 10, temperature |-> 30, event_type |-> "None"]
    ELSE [rain_intensity |-> 9, visibility |-> 2, temperature |-> 18, event_type |-> "Festival"]

NoCall == [key |-> "none"]
NoOutcome == [kind |-> "none"]

\* Raw outputs of model.predict, in 1/100.
RawPredictions == {-20, 10, 50, 130}

\* The generator of module random, as a linear congruential one: random() is
\* state / modulus.
Generator == [modulus |-> 16, multiplier |-> 5, increment |-> 3]
RngStates == 0..(Generator.modulus - 1)
HashSalts == {0, 1}

RECURSIVE StrHash(_, _)
\* hash(s) of a str in a process whose salt is `salt`
StrHash(s, salt) ==
    IF s = <<>> THEN salt ELSE (31 * StrHash(SubSeq(s, 1, Len(s) - 1), salt) + s[Len(s)]) % 1009

\* seed = hash(u + v + str(hour))
SeedOf(key, salt) ==
    StrHash(KeyOf(key).u \o KeyOf(key).v \o Digits(KeyOf(key).hour), salt)

\* random.seed(seed): the generator state the seed determines
Seeded(seed) == seed % Generator.modulus

SeedGeneratorNoOp(current, seed) == current

\* random.seed(seed) on the process-wide generator in state `current`
SeedGenerator(current, seed) == Seeded(seed)

\* One step of the generator.
NextRng(state) == (Generator.multiplier * state + Generator.increment) % Generator.modulus

\* round(x, ndigits) on a non-negative x given in 1/unit of the last kept digit.
RoundHalfEven(x, unit) ==
    LET q == x \div unit
        r == x % unit
    IN IF 2 * r < unit THEN q
       ELSE IF 2 * r > unit THEN q + 1
       ELSE IF q % 2 = 0 THEN q ELSE q + 1

\* random.uniform(20, 90) from generator state `state`, in 1/1000 of a percent.
Uniform20to90(state) == 20000 + (70000 * state) \div Generator.modulus

\* The fallback result built from the draw: congestion and speed are rounded
\* to one decimal and given in tenths.
FallbackResult(draw, label) ==
    [congestion |-> RoundHalfEven(draw, 100),
     speed |-> RoundHalfEven(600000 - 6 * draw, 1000),
     confidence |-> label]

ModelResultNoClamp(raw) ==
    [congestion |-> 10 * raw,
     speed |-> RoundHalfEven(Max(10000, 60000 - 420 * raw), 100),
     confidence |-> IF raw < 20 \/ raw > 80 THEN "High" ELSE "Medium"]

\* Tier 1 from the raw model output p (1/100): clamp, then the result.
ModelResult(raw) ==
    LET prediction == Max(0, Min(100, raw))
        predicted_speed == Max(10000, 60000 - 420 * prediction)
    IN [congestion |-> 10 * prediction,
        speed |-> RoundHalfEven(predicted_speed, 100),
        confidence |-> IF prediction < 20 \/ prediction > 80 THEN "High" ELSE "Medium"]

NeedsLoadAlways(m, e) == TRUE

\* if self.model is None or self.encoders is None
NeedsLoad(m, e) == m = None \/ e = None

CatchesValueErrorOnly(exc) == exc = "ValueError"

\* except Exception as e, around Tier 1
CatchesException(exc) == exc \in {"ValueError", "TypeError", "RuntimeError"}

PredictorIdle ==
    /\ artifacts = [model |-> "absent", encoders |-> "absent"]
    /\ train_pc = "idle"
    /\ model = None
    /\ encoders = None
    /\ rng = 0
    /\ hash_salt = 0
    /\ pc = [t \in Threads |-> "idle"]
    /\ call = [t \in Threads |-> NoCall]
    /\ out = [t \in Threads |-> NoOutcome]
    /\ called = FALSE
    /\ loads_done = 0
    /\ memo = [k \in RouteKeys |-> NoOutcome]

\* TrafficPredictor.__init__ at import, in a process with any salt, any
\* generator state and any artifacts on disk.
InitPredictor ==
    /\ artifacts \in [model : FileStates, encoders : FileStates]
    /\ train_pc = "idle"
    /\ model = None
    /\ encoders = None
    /\ rng \in RngStates
    /\ hash_salt \in HashSalts
    /\ pc = [t \in Threads |-> "idle"]
    /\ call = [t \in Threads |-> NoCall]
    /\ out = [t \in Threads |-> NoOutcome]
    /\ called = FALSE
    /\ loads_done = 0
    /\ memo = [k \in RouteKeys |-> NoOutcome]

\* Both files are on disk and load.
ArtifactsOk == artifacts.model = "ok" /\ artifacts.encoders = "ok"

Goto(t, label) == pc' = [pc EXCEPT ![t] = label]

\* train_model.py: joblib.dump(model, MODEL_PATH)
TrainSaveModel ==
    /\ train_pc = "idle"
    /\ artifacts' = [artifacts EXCEPT !.model = "ok"]
    /\ train_pc' = "saved_model"
    /\ UNCHANGED <<routeVars, gtVars, coreVars, model, encoders, rng, hash_salt, pc, call, out,
                   called, loads_done, memo>>

\* train_model.py: joblib.dump(label_encoders, ENCODERS_PATH)
TrainSaveEncoders ==
    /\ train_pc = "saved_model"
    /\ artifacts' = [artifacts EXCEPT !.encoders = "ok"]
    /\ train_pc' = "done"
    /\ UNCHANGED <<routeVars, gtVars, coreVars, model, encoders, rng, hash_salt, pc, call, out,
                   called, loads_done, memo>>

\* traffic_predictor.predict_congestion(...) is entered.
Call(t, contexts) ==
    /\ pc[t] = "idle"
    /\ \E k \in RouteKeys, c \in contexts :
          call' = [call EXCEPT ![t] = [key |-> k, context |-> c,
                                      available |-> ArtifactsOk]]
    /\ called' = TRUE
    /\ Goto(t, "check")
    /\ UNCHANGED <<routeVars, gtVars, coreVars, artifacts, train_pc, model, encoders, rng, hash_salt,
                   out, loads_done, memo>>

\* _ensure_model_loaded: the test of the pair.
CheckLoaded(t) ==
    /\ pc[t] = "check"
    /\ Goto(t, IF NeedsLoad(model, encoders) THEN "exists" ELSE "loaded")
    /\ UNCHANGED <<routeVars, gtVars, coreVars, artifacts, train_pc, model, encoders, rng, hash_salt,
                   call, out, called, loads_done, memo>>

\* _ensure_model_loaded: os.path.exists of both files.
CheckExists(t) ==
    /\ pc[t] = "exists"
    /\ Goto(t, IF artifacts.model # "absent" /\ artifacts.encoders # "absent"
               THEN "load_model"
               ELSE "loaded")
    /\ UNCHANGED <<routeVars, gtVars, coreVars, artifacts, train_pc, model, encoders, rng, hash_salt,
                   call, out, called, loads_done, memo>>

\* _ensure_model_loaded: self.model = joblib.load(MODEL_PATH); a load that
\* raises is caught and ends the attempt.
LoadModel(t) ==
    /\ pc[t] = "load_model"
    /\ IF artifacts.model = "ok"
       THEN model' = Loaded /\ Goto(t, "load_encoders")
       ELSE model' = model /\ Goto(t, "loaded")
    /\ UNCHANGED <<routeVars, gtVars, coreVars, artifacts, train_pc, encoders, rng, hash_salt,
                   call, out, called, loads_done, memo>>

\* _ensure_model_loaded: self.encoders = joblib.load(ENCODERS_PATH)
LoadEncoders(t) ==
    /\ pc[t] = "load_encoders"
    /\ IF artifacts.encoders = "ok"
       THEN /\ encoders' = Loaded
            /\ loads_done' = IF loads_done < 2 THEN loads_done + 1 ELSE loads_done
       ELSE UNCHANGED <<encoders, loads_done>>
    /\ Goto(t, "loaded")
    /\ UNCHANGED <<routeVars, gtVars, coreVars, artifacts, train_pc, model, rng, hash_salt,
                   call, out, called, memo>>

\* predict_congestion: if self.model is None
AfterLoad(t) ==
    /\ pc[t] = "loaded"
    /\ Goto(t, IF model = None THEN "seed_heuristic" ELSE "tier1")
    /\ UNCHANGED <<routeVars, gtVars, coreVars, artifacts, train_pc, model, encoders, rng, hash_salt,
                   call, out, called, loads_done, memo>>

\* What the try block of Tier 1 does: the encoders test, the encoding, the
\* model's prediction (which returns any raw value or raises).
Tier1Outcomes ==
    IF encoders = None
    THEN {[kind |-> "raise", exc |-> "ValueError"]}
    ELSE {[kind |-> "raise", exc |-> e] : e \in {"TypeError", "RuntimeError"}}
         \cup {[kind |-> "return", value |-> ModelResult(raw)] : raw \in RawPredictions}

\* predict_congestion: Tier 1 and its except clause.
Tier1(t) ==
    /\ pc[t] = "tier1"
    /\ \E o \in Tier1Outcomes :
          IF o.kind = "return"
          THEN /\ out' = [out EXCEPT ![t] = [kind |-> "return", tier |-> "model",
                                             value |-> o.value]]
               /\ Goto(t, "done")
          ELSE IF CatchesException(o.exc)
          THEN /\ out' = out
               /\ Goto(t, "seed_fallback")
          ELSE /\ out' = [out EXCEPT ![t] = [kind |-> "raise", tier |-> "model",
                                             value |-> o.exc]]
               /\ Goto(t, "done")
    /\ UNCHANGED <<routeVars, gtVars, coreVars, artifacts, train_pc, model, encoders, rng, hash_salt,
                   call, called, loads_done, memo>>

FallbackLabelOfOnePath(at) == "Low (Fallback)"

FallbackLabel(at) == IF at = "seed_heuristic" \/ at = "draw_heuristic"
                     THEN "Low (Heuristic)"
                     ELSE "Low (Fallback)"

\* The fallback tier: random.seed(hash(u + v + str(hour)))
Seed(t) ==
    /\ pc[t] \in {"seed_heuristic", "seed_fallback"}
    /\ rng' = SeedGenerator(rng, SeedOf(call[t].key, hash_salt))
    /\ Goto(t, IF pc[t] = "seed_heuristic" THEN "draw_heuristic" ELSE "draw_fallback")
    /\ UNCHANGED <<routeVars, gtVars, coreVars, artifacts, train_pc, model, encoders, hash_salt,
                   call, out, called, loads_done, memo>>

\* The fallback tier: random.uniform(20, 90) and the result.  The history
\* variable memo is kept only where `recording` asks for it.
Draw(t, recording) ==
    /\ pc[t] \in {"draw_heuristic", "draw_fallback"}
    /\ rng' = NextRng(rng)
    /\ LET result == FallbackResult(Uniform20to90(NextRng(rng)), FallbackLabel(pc[t]))
       IN /\ out' = [out EXCEPT ![t] = [kind |-> "return", tier |-> "fallback",
                                        value |-> result]]
          /\ memo' = IF recording /\ memo[call[t].key] = NoOutcome
                     THEN [memo EXCEPT ![call[t].key] =
                              [value |-> result, context |-> call[t].context]]
                     ELSE memo
    /\ Goto(t, "done")
    /\ UNCHANGED <<routeVars, gtVars, coreVars, artifacts, train_pc, model, encoders, hash_salt,
                   call, called, loads_done>>

\* The call's result goes back to its caller.
Return(t) ==
    /\ pc[t] = "done"
    /\ Goto(t, "idle")
    /\ call' = [call EXCEPT ![t] = NoCall]
    /\ out' = [out EXCEPT ![t] = NoOutcome]
    /\ UNCHANGED <<routeVars, gtVars, coreVars, artifacts, train_pc, model, encoders, rng, hash_salt,
                   called, loads_done, memo>>

\* main.py get_ai_insight when the chat API fails: random.choice(fallback_insights)
get_ai_insight ==
    /\ rng' = NextRng(rng)
    /\ UNCHANGED <<routeVars, gtVars, coreVars, artifacts, train_pc, model, encoders, hash_salt,
                   pc, call, out, called, loads_done, memo>>

Step(t, recording) ==
    \/ CheckLoaded(t)
    \/ CheckExists(t)
    \/ LoadModel(t)
    \/ LoadEncoders(t)
    \/ AfterLoad(t)
    \/ Tier1(t)
    \/ Seed(t)
    \/ Draw(t, recording)
    \/ Return(t)

\* One request at a time: calls, and insight requests between calls.
InitSeq == RouteIdle /\ MetricsIdle /\ CoreIdle /\ InitPredictor

NextSeq ==
    \/ Call("t1", Contexts)
    \/ Step("t1", TRUE)
    \/ pc["t1"] = "idle" /\ get_ai_insight
    \/ TrainSaveModel
    \/ TrainSaveEncoders

SpecSeq == InitSeq /\ [][NextSeq]_vars

\* Requests served by the worker threads of the server at the same time.
InitConc ==
    /\ RouteIdle
    /\ MetricsIdle
    /\ CoreIdle
    /\ InitPredictor
    /\ artifacts.model = artifacts.encoders
    /\ artifacts.model # "corrupt"
    /\ rng = 0
    /\ hash_salt = 0

NextConc ==
    \/ \E t \in Threads : Call(t, {"dry"})
    \/ \E t \in Threads : Step(t, FALSE)
    \/ get_ai_insight
    \/ TrainSaveModel
    \/ TrainSaveEncoders

SpecConc == InitConc /\ [][NextConc]_vars

\* ----------------------------- Tier 1 on a loaded pair (ml_inference.py)

\* The classes the label encoders were fitted on, in sorted order; the code of
\* a class is its index, from 0.
EncoderClasses ==
    [u |-> <<<<0>>, <<1>>>>,
     v |-> <<<<1>>, <<2>>>>,
     event_type |-> <<"Accident", "None">>]

\* self.encoders[column].transform([value])[0]: the code, or ValueError for a
\* value the encoder was not fitted on.
transform(column, value) ==
    LET classes == EncoderClasses[column]
        at == {i \in DOMAIN classes : classes[i] = value}
    IN IF at = {}
       THEN [raised |-> "ValueError", code |-> 0]
       ELSE [raised |-> "none", code |-> (CHOOSE i \in at : TRUE) - 1]

\* x_encoded = 0; try: x_encoded = transform(...) except: pass
SafeEncode(column, value) ==
    LET r == transform(column, value)
    IN IF r.raised = "none" THEN r.code ELSE 0

\* The feature row of a call.
Features(c) ==
    [u_encoded |-> SafeEncode("u", KeyOf(c.key).u),
     v_encoded |-> SafeEncode("v", KeyOf(c.key).v),
     hour |-> KeyOf(c.key).hour,
     rain_intensity |-> ContextOf(c.context).rain_intensity,
     visibility |-> ContextOf(c.context).visibility,
     temperature |-> ContextOf(c.context).temperature,
     event_encoded |-> SafeEncode("event_type", ContextOf(c.context).event_type)]

\* The raw outputs of model.predict, in 1/100: every value of the range.
RawRange == [low |-> -30, high |-> 130]
ModelOutputs == RawRange.low..RawRange.high

\* predict_congestion: Tier 1 with the encoders loaded, the encoding spelled
\* out and the model's output anywhere in the range; a prediction that raises
\* goes to the except clause.
ModelTier(t) ==
    /\ pc[t] = "tier1"
    /\ encoders # None
    /\ \/ /\ \E raw \in ModelOutputs :
                out' = [out EXCEPT ![t] = [kind |-> "return", tier |-> "model",
                                           value |-> ModelResult(raw),
                                           raw |-> raw,
                                           features |-> Features(call[t])]]
          /\ Goto(t, "done")
       \/ /\ CatchesException("RuntimeError")
          /\ out' = out
          /\ Goto(t, "seed_fallback")
    /\ UNCHANGED <<routeVars, gtVars, coreVars, artifacts, train_pc, model, encoders, rng,
                   hash_salt, call, called, loads_done, memo>>

\* The process after a successful load of the pair.
InitTier1 ==
    /\ RouteIdle
    /\ MetricsIdle
    /\ CoreIdle
    /\ artifacts = [model |-> "ok", encoders |-> "ok"]
    /\ train_pc = "done"
    /\ model = Loaded
    /\ encoders = Loaded
    /\ rng = 0
    /\ hash_salt = 0
    /\ pc = [t \in Threads |-> "idle"]
    /\ call = [t \in Threads |-> NoCall]
    /\ out = [t \in Threads |-> NoOutcome]
    /\ called = FALSE
    /\ loads_done = 1
    /\ memo = [k \in RouteKeys |-> NoOutcome]

NextTier1 ==
    \/ Call("t1", Contexts)
    \/ CheckLoaded("t1")
    \/ AfterLoad("t1")
    \/ ModelTier("t1")
    \/ Seed("t1")
    \/ Draw("t1", FALSE)
    \/ Return("t1")

SpecTier1 == InitTier1 /\ [][NextTier1]_vars

\* ------------------------------------------------ metrics (game_theory.py)

\* Rows passed to calculate_metrics.
MaxEdges == 4

\* The 'congestion' scores of the rows, in percent.
CongestionScores == {0, 20, 70, 75, 100}
\* calculate_travel_time(congestion_score) = 10 * (1 + 0.15 * (score / 20)^4),
\* in 1/512; exact for scores that are multiples of 5.
calculate_travel_time(congestion_score) ==
    5120 + (3 * congestion_score * congestion_score * congestion_score * congestion_score) \div 625

\* The loop over current_congestion: 70 for a score above 70.
optimal_congestion(c) == IF c > 70 THEN 70 ELSE c

RECURSIVE SumTravelTimes(_, _)
\* sum(calculate_travel_time(c) for c in ...), of the scores from index i on
SumTravelTimes(scores, i) ==
    IF i > Len(scores)
    THEN 0
    ELSE calculate_travel_time(scores[i]) + SumTravelTimes(scores, i + 1)

StatusAboveOne(nash_total_cost, optimal_total_cost) ==
    IF nash_total_cost > optimal_total_cost THEN "Inefficient" ELSE "Optimal"

\* "Inefficient" if poa > 1.1 else "Optimal", on the unrounded poa
Status(nash_total_cost, optimal_total_cost) ==
    IF 10 * nash_total_cost > 11 * optimal_total_cost THEN "Inefficient" ELSE "Optimal"

\* calculate_metrics(traffic_data): price_of_anarchy in 1/100, the costs in units.
calculate_metrics_of(data) ==
    IF data = <<>>
    THEN [price_of_anarchy |-> 0, nash_cost |-> 0, optimal_cost |-> 0, status |-> "No Data"]
    ELSE LET nash_total_cost == SumTravelTimes(data, 1)
             optimal_sum == SumTravelTimes([i \in 1..Len(data) |-> optimal_congestion(data[i])], 1)
             optimal_total_cost == IF optimal_sum = 0 THEN 512 ELSE optimal_sum
         IN [price_of_anarchy |-> RoundHalfEven(100 * nash_total_cost, optimal_total_cost),
             nash_cost |-> RoundHalfEven(nash_total_cost, 512),
             optimal_cost |-> RoundHalfEven(optimal_total_cost, 512),
             status |-> Status(nash_total_cost, optimal_total_cost)]

\* calculate_metrics is called on traffic_data.
calculate_metrics ==
    /\ metrics = NoMetrics
    /\ metrics' = calculate_metrics_of(traffic_data)
    /\ UNCHANGED <<routeVars, mlVars, traffic_data, coreVars>>

InitMetrics ==
    /\ RouteIdle
    /\ CoreIdle
    /\ PredictorIdle
    /\ traffic_data \in UNION {[1..n -> CongestionScores] : n \in 0..MaxEdges}
    /\ metrics = NoMetrics

NextMetrics == calculate_metrics

SpecMetrics == InitMetrics /\ [][NextMetrics]_vars

\* ----------------------------------------------------------------- routing

Requests(nodes) == [source : nodes, target : nodes, mode : Modes]

\* A client posts a get-path request.
Receive(requests) ==
    /\ req = NoRequest
    /\ \E r \in requests : req' = r
    /\ UNCHANGED <<df, resp, build, mlVars, gtVars, coreVars>>

\* POST /get-path
get_path ==
    /\ req # NoRequest
    /\ resp = NoResponse
    /\ \E kind \in (IF req.mode = "optimized" THEN SortKinds ELSE {"stable"}) :
          LET b == build_graph(df, req.mode = "optimized", kind)
          IN /\ build' = b
             /\ df' = b.data_frame
             /\ resp' = get_path_except(get_path_try(b.G, req))
    /\ UNCHANGED <<req, mlVars, gtVars, coreVars>>

\* The response goes out to the client; the graph built for the request is
\* dropped with the handler's frame.
Deliver ==
    /\ resp # NoResponse
    /\ req' = NoRequest
    /\ resp' = NoResponse
    /\ build' = NoBuild
    /\ UNCHANGED <<df, mlVars, gtVars, coreVars>>

InitRoute ==
    /\ df \in SmallSnapshots
    /\ req = NoRequest
    /\ resp = NoResponse
    /\ build = NoBuild
    /\ PredictorIdle
    /\ MetricsIdle
    /\ CoreIdle

NextRoute ==
    \/ Receive(Requests(RequestNodes))
    \/ get_path
    \/ Deliver

SpecRoute == InitRoute /\ [][NextRoute]_vars

InitBuild ==
    /\ df \in LargeSnapshots
    /\ req = NoRequest
    /\ resp = NoResponse
    /\ build = NoBuild
    /\ PredictorIdle
    /\ MetricsIdle
    /\ CoreIdle

NextBuild ==
    \/ Receive(Requests({"A", "E"}))
    \/ get_path
    \/ Deliver

SpecBuild == InitBuild /\ [][NextBuild]_vars

\* ------------------------------- the cost summary and the node list (main.py)

\* Rows of the file read for the cost summary.
MaxSummaryRows == 2

SummaryEdges == {<<"A", "B">>, <<"B", "C">>}
\* congestion_level 0 and 1.0, in 1/10000.
SummaryLevels == {0, 10000}
\* Values of the 'flow' column, when the file has one.
Flows == {500, 1000}

FlowRow(u, v, c, t, f) ==
    [u |-> u, v |-> v, congestion_level |-> c, timestamp |-> t, flow |-> f]

SummaryRowsNoFlow ==
    {Row(e[1], e[2], c, t) : e \in SummaryEdges, c \in SummaryLevels, t \in Timestamps}
SummaryRowsFlow ==
    {FlowRow(e[1], e[2], c, t, f) :
        e \in SummaryEdges, c \in SummaryLevels, t \in Timestamps, f \in Flows}

\* The files with a header line: all rows with a flow column or all without.
SummaryFrames ==
    UNION {{f \in [1..n -> SummaryRowsNoFlow] \cup [1..n -> SummaryRowsFlow] : TimeOrdered(f)} :
              n \in 0..MaxSummaryRows}

\* traffic_data_simulated.csv: not there, there with no header line (zero
\* bytes), or there with a header line and rows.  CSV_PATH and the relative
\* path name the same file when the server runs from the repository root.
CsvFiles ==
    {[state |-> "missing"], [state |-> "no_columns"]}
        \cup {[state |-> "ok", rows |-> f] : f \in SummaryFrames}

\* pd.read_csv(path): the frame, or the exception it raises.
read_csv(file) ==
    IF file.state = "missing" THEN [raised |-> "FileNotFoundError", frame |-> <<>>]
    ELSE IF file.state = "no_columns" THEN [raised |-> "EmptyDataError", frame |-> <<>>]
    ELSE [raised |-> "none", frame |-> file.rows]

\* The import-time load of df: any exception leaves an empty frame.
LoadSnapshot(file) ==
    LET r == read_csv(file)
    IN IF r.raised = "none" THEN r.frame ELSE <<>>

\* The alphabetical order of the node names.
NodeRank == [A |-> 1, B |-> 2, C |-> 3, D |-> 4, E |-> 5, Z |-> 6]

RECURSIVE Sorted(_)
\* sorted(names)
Sorted(names) ==
    IF names = {}
    THEN <<>>
    ELSE LET first == CHOOSE x \in names : \A y \in names : NodeRank[x] <= NodeRank[y]
         IN <<first>> \o Sorted(names \ {first})

\* get_nodes(): what it returns for the frame df.
get_nodes_of(frame) ==
    IF DOMAIN frame = {}
    THEN <<>>
    ELSE LET curr == CurrentRows(frame)
         IN Sorted({curr[i].u : i \in DOMAIN curr} \cup {curr[i].v : i \in DOMAIN curr})

\* congestion_level in 1/20: the levels of the file and their discounts are whole.
Units20(c) == c \div 500

\* row['flow'] if 'flow' in row else 1000
DefaultFlow == 1000
FlowOf(row) == IF "flow" \in DOMAIN row THEN row.flow ELSE DefaultFlow

\* flow * travel_time with base_time = 0.5, alpha = 0.15, beta = 4, in 1/12800 hour.
LinkTime(flow, c) ==
    (flow \div 500) * (3200000 + 3 * Units20(c) * Units20(c) * Units20(c) * Units20(c))

RECURSIVE SumLinkTimes(_, _, _)
\* The loop over traffic_df.iterrows(): the rows of top_edges at 0.85 of their
\* congestion, the others as they are.
SumLinkTimes(frame, labels, top_edges) ==
    IF labels = {}
    THEN 0
    ELSE LET i == CHOOSE x \in labels : \A y \in labels : x <= y
             c == IF i \in top_edges
                  THEN Discount(frame[i].congestion_level)
                  ELSE frame[i].congestion_level
         IN LinkTime(FlowOf(frame[i]), c) + SumLinkTimes(frame, labels \ {i}, top_edges)

RECURSIVE TotalThroughput(_, _)
\* total_throughput += row['flow'], for the rows that have one
TotalThroughput(frame, labels) ==
    IF labels = {}
    THEN 0
    ELSE LET i == CHOOSE x \in labels : TRUE
         IN (IF "flow" \in DOMAIN frame[i] THEN frame[i].flow ELSE 0)
            + TotalThroughput(frame, labels \ {i})

RECURSIVE EdgeList(_, _)
\* The edges list, in row order; congestion as in get_path: level * 100.
EdgeList(frame, labels) ==
    IF labels = {}
    THEN <<>>
    ELSE LET i == CHOOSE x \in labels : \A y \in labels : x <= y
         IN <<[from |-> frame[i].u, to |-> frame[i].v,
               congestion |-> frame[i].congestion_level * 100]>>
            \o EdgeList(frame, labels \ {i})

\* round(n / d, 3) in 1/1000, by long division.
RoundedRatio(n, d) ==
    LET q == n \div d
        r0 == n % d
        d1 == (10 * r0) \div d
        r1 == (10 * r0) % d
        d2 == (10 * r1) \div d
        r2 == (10 * r1) % d
        d3 == (10 * r2) \div d
        r3 == (10 * r2) % d
        whole == 1000 * q + 100 * d1 + 10 * d2 + d3
    IN IF 2 * r3 < d THEN whole
       ELSE IF 2 * r3 > d THEN whole + 1
       ELSE IF whole % 2 = 0 THEN whole ELSE whole + 1

FileNotFoundValue == [kind |-> "error_value", error |-> "traffic_data_simulated.csv not found"]

\* get_traffic_status(): what it returns or raises.  price_of_anarchy is in
\* 1/1000, the costs are in 1/100 rupee (VOT_INR = 150 per hour).
get_traffic_status_of(file, kind) ==
    LET r == read_csv(file)
    IN IF r.raised = "FileNotFoundError" THEN FileNotFoundValue
       ELSE IF r.raised # "none" THEN [kind |-> "raise", exc |-> r.raised]
       ELSE LET traffic_df == CurrentRows(r.frame)
                labels == DOMAIN traffic_df
                sorted_df == sort_values(traffic_df, labels, kind)
                top_edges == head_index(sorted_df, top_15_percent_count(Len(sorted_df)))
                system_time == SumLinkTimes(traffic_df, labels, {})
                optimized_time == SumLinkTimes(traffic_df, labels, top_edges)
                worst_idx == CHOOSE i \in labels : \A j \in labels :
                                 \/ traffic_df[i].congestion_level > traffic_df[j].congestion_level
                                 \/ /\ traffic_df[i].congestion_level = traffic_df[j].congestion_level
                                    /\ i <= j
            IN [kind |-> "ok",
                edges |-> EdgeList(traffic_df, labels),
                metrics |->
                    [price_of_anarchy |-> IF optimized_time > 0
                                          THEN RoundedRatio(system_time, optimized_time)
                                          ELSE 1000,
                     nash_cost |-> RoundHalfEven(75 * system_time, 64),
                     optimized_cost |-> RoundHalfEven(75 * optimized_time, 64),
                     total_throughput |-> TotalThroughput(traffic_df, labels)],
                bottleneck_edge |->
                    IF labels # {}
                    THEN [from |-> traffic_df[worst_idx].u,
                          to |-> traffic_df[worst_idx].v,
                          congestion |-> traffic_df[worst_idx].congestion_level * 100]
                    ELSE <<>>]

\* GET /traffic-status
get_traffic_status ==
    /\ status = NoStatus
    /\ \E kind \in SortKinds : status' = get_traffic_status_of(csv_file, kind)
    /\ UNCHANGED <<routeVars, mlVars, gtVars, csv_file, node_list>>

\* GET /nodes
get_nodes ==
    /\ node_list = NoNodeList
    /\ node_list' = [kind |-> "ok", nodes |-> get_nodes_of(df)]
    /\ UNCHANGED <<routeVars, mlVars, gtVars, csv_file, status>>

\* The server starts on any file: df is loaded from it at import.
InitSummary ==
    /\ csv_file \in CsvFiles
    /\ df = LoadSnapshot(csv_file)
    /\ req = NoRequest
    /\ resp = NoResponse
    /\ build = NoBuild
    /\ status = NoStatus
    /\ node_list = NoNodeList
    /\ PredictorIdle
    /\ MetricsIdle

NextSummary ==
    \/ get_traffic_status
    \/ get_nodes
    \/ Receive(Requests({"A", "B"}))
    \/ get_path
    \/ Deliver

SpecSummary == InitSummary /\ [][NextSummary]_vars

\* ------------------------------------------------------- claims: routing

\* A request has been served and its graph is still at hand.
Served == resp # NoResponse /\ build # NoBuild

\* The weight of a node sequence, summed from its last edge back.
RECURSIVE PathWeight(_, _)
PathWeight(G, p) ==
    IF Len(p) <= 1
    THEN 0
    ELSE PathWeight(G, SubSeq(p, 1, Len(p) - 1)) + G.weight[<<p[Len(p) - 1], p[Len(p)]>>]

IsPath(G, p) ==
    /\ Len(p) >= 1
    /\ \A i \in 1..Len(p) : p[i] \in G.nodes
    /\ \A i \in 1..(Len(p) - 1) : <<p[i], p[i + 1]>> \in DOMAIN G.weight

\* Every directed path of G without a repeated node, from source to target.
SimplePaths(G, source, target) ==
    {p \in UNION {[1..k -> G.nodes] : k \in 1..Cardinality(G.nodes)} :
        /\ IsPath(G, p)
        /\ p[1] = source
        /\ p[Len(p)] = target
        /\ \A i, j \in 1..Len(p) : i # j => p[i] # p[j]}

\* C1: a get_path request whose source or target is not a node of the graph
\* built for it fails with the 404 "Source or Target node not found in
\* network." failure, never with a 500 and never with a path.
C1_NodeNotFoundIs404 ==
    (Served /\ (req.source \notin build.G.nodes \/ req.target \notin build.G.nodes))
        => /\ resp.kind = "error"
           /\ resp.status_code = 404
           /\ resp.detail = NodeNotFoundDetail

\* C2: whenever a directed path leads from source to target in the graph built
\* for the request, get_path returns a path from source to target along edges
\* of the graph, with one edge record per step, whose total_weight is the sum
\* of its edges' weights and is the least weight of any directed path between
\* them; for source = target it is [source] with no edges and weight 0.
C2_ShortestPath ==
    (Served /\ SimplePaths(build.G, req.source, req.target) # {})
        => /\ resp.kind = "ok"
           /\ IsPath(build.G, resp.path)
           /\ resp.path[1] = req.source
           /\ resp.path[Len(resp.path)] = req.target
           /\ Len(resp.edges) = Len(resp.path) - 1
           /\ \A i \in 1..Len(resp.edges) :
                 /\ resp.edges[i].from = resp.path[i]
                 /\ resp.edges[i].to = resp.path[i + 1]
           /\ resp.total_weight = PathWeight(build.G, resp.path)
           /\ \A p \in SimplePaths(build.G, req.source, req.target) :
                 resp.total_weight <= PathWeight(build.G, p)
           /\ req.source = req.target
                 => resp.path = <<req.source>> /\ resp.edges = <<>> /\ resp.total_weight = 0

\* C2's case: a two-edge path is returned although a direct edge exists.
C2_Witness ==
    /\ Served
    /\ resp.kind = "ok"
    /\ Len(resp.path) = 3
    /\ <<req.source, req.target>> \in DOMAIN build.G.weight

\* The rows of the snapshot at its latest timestamp, counted from the snapshot.
LatestLabels ==
    {i \in DOMAIN df : \A j \in DOMAIN df : df[j].timestamp <= df[i].timestamp}

OptimizedBuilt == build # NoBuild /\ build.optimized

\* Discounted rows are multiplied by 0.85, in the frame and in the graph; the
\* others are unchanged; no row left out is more congested than a discounted one.
DiscountShape ==
    /\ build.top_edges \subseteq LatestLabels
    /\ DOMAIN build.current_df = LatestLabels
    /\ \A i \in LatestLabels :
          /\ 100 * build.current_df[i].congestion_level =
                IF i \in build.top_edges
                THEN 85 * df[i].congestion_level
                ELSE 100 * df[i].congestion_level
          /\ (\A j \in LatestLabels : j > i => <<df[j].u, df[j].v>> # <<df[i].u, df[i].v>>)
                => build.G.weight[<<df[i].u, df[i].v>>] = build.current_df[i].congestion_level
    /\ \A i \in build.top_edges : \A j \in LatestLabels \ build.top_edges :
          df[i].congestion_level >= df[j].congestion_level

\* C3 as stated: an optimized build on n current rows discounts exactly
\* max(1, floor(0.15 n)) of them.
C3_Original ==
    OptimizedBuilt
        => /\ Cardinality(build.top_edges) =
                 Max(1, (15 * Cardinality(LatestLabels)) \div 100)
           /\ DiscountShape

\* C3, amended: an optimized build on n current rows discounts exactly
\* min(n, max(1, floor(0.15 n))) of them (none when the snapshot is empty),
\* multiplying their congestion and weight by 0.85 and leaving the other rows
\* unchanged; every discounted row is at least as congested as every other row.
C3_TopRowsDiscounted ==
    OptimizedBuilt
        => /\ Cardinality(build.top_edges) =
                 Min(Cardinality(LatestLabels),
                     Max(1, (15 * Cardinality(LatestLabels)) \div 100))
           /\ DiscountShape

\* C3's case: two rows are discounted, a hot one and one of the tied rows.
C3_Witness ==
    /\ OptimizedBuilt
    /\ Cardinality(build.top_edges) = 2
    /\ \E i, j \in build.top_edges : df[i].congestion_level > df[j].congestion_level

\* C4: no get_path request, in either mode, changes the shared snapshot: the
\* graph of every request is the raw snapshot, discounted once on the rows the
\* request chose and nowhere else.
C4_SnapshotUnchanged ==
    [][/\ df' = df
       /\ build' # NoBuild
             => /\ ~build'.optimized => build'.top_edges = {}
                /\ \A i \in DOMAIN build'.current_df :
                      100 * build'.current_df[i].congestion_level =
                         IF i \in build'.top_edges
                         THEN 85 * df[i].congestion_level
                         ELSE 100 * df[i].congestion_level]_vars

\* C4's case: an optimized request has been answered with a discounted edge
\* and the snapshot still holds that edge's raw congestion.
C4_Witness ==
    /\ Served
    /\ req.mode = "optimized"
    /\ resp.kind = "ok"
    /\ \E i \in build.top_edges : \E k \in 1..Len(resp.edges) :
          /\ resp.edges[k].from = df[i].u
          /\ resp.edges[k].to = df[i].v
          /\ resp.edges[k].congestion = 85 * df[i].congestion_level
          /\ df[i].congestion_level \in CongestionLevels

\* ---------------------------------------------------- claims: forecaster

LowLabels == {"Low (Heuristic)", "Low (Fallback)"}
InLoadBlock == {"exists", "load_model", "load_encoders"}
PastLoad == {"loaded", "tier1", "seed_heuristic", "draw_heuristic", "seed_fallback",
             "draw_fallback", "done"}

Finished(t) == pc[t] = "done"
FinishedInFallback(t) == Finished(t) /\ out[t].kind = "return" /\ out[t].tier = "fallback"

\* C5: predict_congestion never raises: whatever the load did and whatever the
\* model does, every call returns congestion, speed and confidence; the
\* confidence is a "Low (...)" label when the fallback tier produced the result
\* and "Medium" or "High" only when the model's prediction did.
C5_NeverRaises ==
    \A t \in Threads :
        Finished(t)
            => /\ out[t].kind = "return"
               /\ DOMAIN out[t].value = {"congestion", "speed", "confidence"}
               /\ out[t].tier = "fallback" => out[t].value.confidence \in LowLabels
               /\ out[t].value.confidence \in {"Medium", "High"} => out[t].tier = "model"
               /\ out[t].value.confidence \in LowLabels \cup {"Medium", "High"}

\* C5's case: the pair is loaded, the prediction raised, the call returned the
\* fallback result.
C5_Witness ==
    /\ Finished("t1")
    /\ model = Loaded
    /\ encoders = Loaded
    /\ out["t1"].kind = "return"
    /\ out["t1"].value.confidence = "Low (Fallback)"

\* C6: nothing is loaded before the first call; a call that finds the pair
\* incomplete attempts the load, and one that finds it complete does not; a
\* call entered with both artifacts available gets past the load with the pair
\* complete and never answers from the heuristic; once both are loaded no step
\* reloads or replaces them.
C6_LazyMemoizedLoad ==
    [][/\ ~called => model = None /\ encoders = None /\ loads_done = 0
       /\ \A t \in Threads :
             /\ (pc[t] = "check" /\ pc'[t] # "check")
                   => (pc'[t] = "exists" <=> (model = None \/ encoders = None))
             /\ (pc'[t] \in PastLoad /\ call'[t] # NoCall /\ call'[t].available)
                   => model' = Loaded /\ encoders' = Loaded
             /\ (pc'[t] = "done" /\ call'[t].available)
                   => out'[t].value.confidence # "Low (Heuristic)"
       /\ (model # None /\ encoders # None)
             => /\ model' = model
                /\ encoders' = encoders
                /\ loads_done' = loads_done
                /\ \A t \in Threads : pc'[t] \notin InLoadBlock]_vars

\* C6's case: a call answered from the heuristic because the load failed, and
\* a later call, with the artifacts there, answered from the model.
C6_Witness ==
    /\ Finished("t1")
    /\ out["t1"].kind = "return"
    /\ out["t1"].tier = "model"
    /\ loads_done = 1
    /\ \E k \in RouteKeys :
          memo[k] # NoOutcome /\ memo[k].value.confidence = "Low (Heuristic)"

\* C7: the lazy load is a one-time initialization: the pair is loaded by at
\* most one call, and no call is past the load step seeing the model set and
\* the encoders None while another call is about to set the encoders.
C7_OneTimeInit ==
    /\ loads_done <= 1
    /\ \A t, other \in Threads :
          (t # other /\ pc[t] \in PastLoad /\ model # None /\ encoders = None)
              => pc[other] # "load_encoders"

\* The result of a fallback call run alone: the first draw after seeding.
AloneResult(key, label) ==
    FallbackResult(Uniform20to90(NextRng(Seeded(SeedOf(key, hash_salt)))), label)

\* C8: a fallback call returns what it returns when run alone with the same
\* (source, target, hour), whatever runs at the same time.
C8_IndependentOfOthers ==
    \A t \in Threads :
        FinishedInFallback(t)
            => out[t].value = AloneResult(call[t].key, out[t].value.confidence)

\* C9 as stated: a fallback call returns exactly what the first fallback call
\* of its (source, target, hour) returned, with congestion in [20, 90] and
\* speed = 60 * (1 - congestion / 100).  Congestion and speed are in tenths.
C9_Original ==
    \A t \in Threads :
        (FinishedInFallback(t) /\ memo[call[t].key] # NoOutcome)
            => /\ out[t].value = memo[call[t].key].value
               /\ out[t].value.congestion >= 200
               /\ out[t].value.congestion <= 900
               /\ 10 * out[t].value.speed = 6000 - 6 * out[t].value.congestion

\* C9, amended: a fallback call returns the congestion and the speed the first
\* fallback call of its (source, target, hour) returned, whatever the other
\* arguments and the calls in between; its confidence is the "Low" label of its
\* own failure path; the congestion is in [20, 90]; congestion and speed are
\* each rounded to one decimal, so the speed is within 0.08 of
\* 60 * (1 - congestion / 100).
C9_SeededDeterminism ==
    \A t \in Threads :
        (FinishedInFallback(t) /\ memo[call[t].key] # NoOutcome)
            => /\ out[t].value.congestion = memo[call[t].key].value.congestion
               /\ out[t].value.speed = memo[call[t].key].value.speed
               /\ out[t].value.confidence \in LowLabels
               /\ out[t].value.congestion >= 200
               /\ out[t].value.congestion <= 900
               /\ 10 * out[t].value.speed - (6000 - 6 * out[t].value.congestion) <= 8
               /\ (6000 - 6 * out[t].value.congestion) - 10 * out[t].value.speed <= 8

\* C9's case: a second fallback call of a key, with other weather and event
\* arguments and another failure path than the first, returns the same numbers.
C9_Witness ==
    /\ FinishedInFallback("t1")
    /\ memo[call["t1"].key] # NoOutcome
    /\ memo[call["t1"].key].context # call["t1"].context
    /\ memo[call["t1"].key].value.confidence # out["t1"].value.confidence
    /\ \E k \in RouteKeys : k # call["t1"].key /\ memo[k] # NoOutcome

\* ------------------------------------------------------- claims: metrics

Computed == metrics # NoMetrics /\ traffic_data # <<>>

\* C10 as stated: the status is "Inefficient" exactly when the returned
\* price_of_anarchy (in 1/100) is above 1.1, "Optimal" otherwise; the returned
\* price_of_anarchy is never negative and is 1.0 when every congestion is 0.
C10_Original ==
    Computed
        => /\ metrics.status = (IF metrics.price_of_anarchy > 110 THEN "Inefficient" ELSE "Optimal")
           /\ metrics.price_of_anarchy >= 0
           /\ (\A i \in 1..Len(traffic_data) : traffic_data[i] = 0)
                 => metrics.price_of_anarchy = 100

\* The costs before rounding, summed from the last row back.
RECURSIVE CostOf(_, _)
CostOf(scores, capped) ==
    IF scores = <<>>
    THEN 0
    ELSE LET c == scores[Len(scores)]
         IN CostOf(SubSeq(scores, 1, Len(scores) - 1), capped)
            + 5120 + (3 * (IF capped /\ c > 70 THEN 70 ELSE c) ^ 4) \div 625

\* C10, amended: the status is "Inefficient" exactly when the ratio of the Nash
\* cost to the optimal cost, before it is rounded, is above 1.1, and "Optimal"
\* otherwise; the returned price_of_anarchy is that ratio rounded to two
\* decimals, so "Inefficient" comes with a returned value of 1.1 or more, and
\* a returned value above 1.1 with "Inefficient"; the returned value is never
\* negative and is 1.0 when every congestion is 0.
C10_StatusFromUnroundedRatio ==
    Computed
        => /\ metrics.status =
                 (IF 10 * CostOf(traffic_data, FALSE) > 11 * CostOf(traffic_data, TRUE)
                  THEN "Inefficient"
                  ELSE "Optimal")
           /\ metrics.status = "Inefficient" => metrics.price_of_anarchy >= 110
           /\ metrics.price_of_anarchy > 110 => metrics.status = "Inefficient"
           /\ metrics.price_of_anarchy >= 0
           /\ (\A i \in 1..Len(traffic_data) : traffic_data[i] = 0)
                 => metrics.price_of_anarchy = 100

\* C10's case: "Inefficient" returned with a price_of_anarchy of exactly 1.1.
C10_Witness ==
    /\ Computed
    /\ metrics.status = "Inefficient"
    /\ metrics.price_of_anarchy = 110

\* -------------------------------------------------- claims: the cost summary

\* The 'congestion' of the summary's edges in percent, as calculate_metrics reads it.
SummaryScores == [i \in 1..Len(status.edges) |-> status.edges[i].congestion \div 10000]

\* C11: the cost summary of a non-empty snapshot carries both reports on its
\* rows: next to the monetized ratio, the unitless report of calculate_metrics
\* (70% cap) with its Inefficient/Optimal status.
C11_BothReportsExposed ==
    (status # NoStatus /\ status.kind = "ok" /\ status.edges # <<>>)
        => /\ "status" \in DOMAIN status.metrics
           /\ status.metrics.status = calculate_metrics_of(SummaryScores).status
           /\ metrics = calculate_metrics_of(SummaryScores)

\* The snapshot is missing or has no rows.
SnapshotUnavailable == csv_file.state # "ok" \/ csv_file.rows = <<>>

\* C12: with the snapshot missing or empty, every graph built has no nodes and
\* no edges, the node list is empty, and the cost summary is an answer with
\* no edges, zero costs, zero throughput and an empty bottleneck, never an
\* error value or an exception.
C12_EmptyResultsNotErrors ==
    SnapshotUnavailable
        => /\ build # NoBuild => build.G = EmptyGraph
           /\ node_list # NoNodeList => node_list.nodes = <<>>
           /\ status # NoStatus
                 => /\ status.kind = "ok"
                    /\ status.edges = <<>>
                    /\ status.metrics.nash_cost = 0
                    /\ status.metrics.optimized_cost = 0
                    /\ status.metrics.total_throughput = 0
                    /\ status.bottleneck_edge = <<>>

\* ------------------------------------------------------ claims: model tier

\* A call answered by the model tier.
AnsweredByModel == Finished("t1") /\ out["t1"].kind = "return" /\ out["t1"].tier = "model"

\* The raw output clamped to [0, 1], in 1/100.
Clamped(raw) == IF raw < 0 THEN 0 ELSE IF raw > 100 THEN 100 ELSE raw

\* The parts of C13 that do not involve the speed: congestion in [0, 100]
\* (tenths of a percent here), "High" exactly for p < 0.2 or p > 0.8, and 0 as
\* the code of a category the encoders have not seen.
ModelTierShape ==
    LET p == Clamped(out["t1"].raw)
        value == out["t1"].value
        features == out["t1"].features
        key == KeyOf(call["t1"].key)
        context == ContextOf(call["t1"].context)
    IN /\ value.congestion >= 0
       /\ value.congestion <= 1000
       /\ value.congestion = 10 * p
       /\ value.speed >= 100
       /\ value.confidence = (IF p < 20 \/ p > 80 THEN "High" ELSE "Medium")
       /\ (\A i \in DOMAIN EncoderClasses.v : EncoderClasses.v[i] # key.v)
             => features.v_encoded = 0
       /\ (\A i \in DOMAIN EncoderClasses.event_type :
              EncoderClasses.event_type[i] # context.event_type)
             => features.event_encoded = 0

\* C13 as stated: the speed of a model-tier result is max(10, 60*(1 - 0.7 p)).
\* The speed is in tenths, the right-hand side in 1/1000.
C13_Original ==
    AnsweredByModel
        => /\ ModelTierShape
           /\ 100 * out["t1"].value.speed =
                 Max(10000, 60000 - 420 * Clamped(out["t1"].raw))

\* C13, amended: for every raw output and every category, seen or not, the
\* model-tier result has congestion in [0, 100], confidence "High" exactly
\* when the clamped p is < 0.2 or > 0.8 and "Medium" otherwise, and a speed
\* that is max(10, 60*(1 - 0.7 p)) rounded to one decimal: within 0.05 of it
\* and never below 10.
C13_ModelTierResult ==
    AnsweredByModel
        => /\ ModelTierShape
           /\ 100 * out["t1"].value.speed
                 - Max(10000, 60000 - 420 * Clamped(out["t1"].raw)) <= 50
           /\ Max(10000, 60000 - 420 * Clamped(out["t1"].raw))
                 - 100 * out["t1"].value.speed <= 50

\* C13's case: a raw output above 1 on a call whose target and event type the
\* encoders have not seen: congestion 100, speed 18, "High".
C13_Witness ==
    /\ AnsweredByModel
    /\ out["t1"].raw > 100
    /\ out["t1"].features.v_encoded = 0
    /\ out["t1"].features.u_encoded = 1
    /\ ContextOf(call["t1"].context).event_type = "Festival"
    /\ out["t1"].value = [congestion |-> 1000, speed |-> 180, confidence |-> "High"]

\* -------------------------------------------------- claims: fallback labels

\* C14: the fallback label names the failure path.  A call leaves the load
\* step for the heuristic exactly when the model is None and for Tier 1
\* otherwise; Tier 1 with the encoders None goes to the except clause; a call
\* finishes with "Low (Heuristic)" exactly when the model is None, with
\* "Low (Fallback)" only with a model present and always when the model is
\* present and the encoders are None, and with "Medium" or "High" only
\* straight from Tier 1; a call that finds the model set and the encoders None
\* attempts the load again.
C14_LabelNamesFailurePath ==
    [][\A t \in Threads :
          /\ (pc[t] = "loaded" /\ pc'[t] # "loaded")
                => /\ pc'[t] = "seed_heuristic" <=> model = None
                   /\ pc'[t] = "tier1" <=> model # None
          /\ (pc[t] = "tier1" /\ pc'[t] # "tier1" /\ encoders = None)
                => pc'[t] = "seed_fallback"
          /\ (pc[t] # "done" /\ pc'[t] = "done")
                => /\ out'[t].kind = "return"
                   /\ out'[t].value.confidence = "Low (Heuristic)" <=> model' = None
                   /\ out'[t].value.confidence = "Low (Fallback)" => model' # None
                   /\ (model' # None /\ encoders' = None)
                         => out'[t].value.confidence = "Low (Fallback)"
                   /\ out'[t].value.confidence = "Low (Heuristic)" <=> pc[t] = "draw_heuristic"
                   /\ out'[t].value.confidence = "Low (Fallback)" <=> pc[t] = "draw_fallback"
                   /\ out'[t].value.confidence \in {"Medium", "High"} <=> pc[t] = "tier1"
          /\ (pc[t] = "check" /\ pc'[t] # "check" /\ model # None /\ encoders = None)
                => pc'[t] = "exists"]_vars

\* C14's case: the load stopped after the model was set, and the call came
\* back with "Low (Fallback)".
C14_Witness ==
    /\ Finished("t1")
    /\ model = Loaded
    /\ encoders = None
    /\ out["t1"].kind = "return"
    /\ out["t1"].value.confidence = "Low (Fallback)"
    /\ artifacts.encoders = "corrupt"

\* ------------------------------------------------ claims: the two regimes

\* What get_path answers to the request r on the snapshot df in the given
\* regime, when the sort of the optimized build is of the given kind.
AnswerIn(optimized, kind, r) ==
    get_path_except(get_path_try(build_graph(df, optimized, kind).G, r))

\* The answers agree on the outcome, and where both are paths the optimized
\* one weighs no more.
SameOutcomeNoHeavier(current, optimized) ==
    /\ optimized.kind = current.kind
    /\ optimized.status_code = current.status_code
    /\ current.kind = "error" => optimized.detail = current.detail
    /\ current.kind = "ok" => optimized.total_weight <= current.total_weight

\* C15: the graphs built from the snapshot in the two regimes have the same
\* nodes and the same edges, so the answer to a served request and the answer
\* to the same request in the other regime are both paths or both the same
\* failure, and where both are paths the optimized total_weight is at most
\* the current one.
C15_OptimizedNeverWorse ==
    Served
        => \A kind \in (IF req.mode = "optimized" THEN {"stable"} ELSE SortKinds) :
              LET other == build_graph(df, req.mode # "optimized", kind)
                  answer == get_path_except(get_path_try(other.G, req))
              IN /\ other.G.nodes = build.G.nodes
                 /\ DOMAIN other.G.weight = DOMAIN build.G.weight
                 /\ IF req.mode = "optimized"
                    THEN SameOutcomeNoHeavier(answer, resp)
                    ELSE SameOutcomeNoHeavier(resp, answer)

\* C15's case: the optimized request is answered with another, lighter path
\* than the one the current regime gives.
C15_Witness ==
    /\ Served
    /\ req.mode = "optimized"
    /\ resp.kind = "ok"
    /\ AnswerIn(FALSE, "stable", req).kind = "ok"
    /\ AnswerIn(FALSE, "stable", req).path # resp.path
    /\ resp.total_weight < AnswerIn(FALSE, "stable", req).total_weight

====
